---- MODULE Spec2Model ----
(***************************************************************************)
(* MaxHeap of src/src/data_structures/heap.js: an array-backed, 1-indexed  *)
(* binary max-heap used as a bounded priority queue, and the in-place      *)
(* heapsort built on it.                                                   *)
(***************************************************************************)
EXTENDS Integers, Sequences, FiniteSets, TLC

\* Bounds of the model.
MaxCap == 4      \* largest size given to the empty constructor
MaxLen == 4      \* largest number of records in an array given by the caller
MaxPri == 3      \* priorities are drawn from 1..MaxPri
MaxElem == 2     \* elements are drawn from 1..MaxElem

VARIABLES
  storage,   \* this._storage: a function on 0..length-1
  size,      \* this.size
  count,     \* this._count
  origin,    \* "none" before construction, then "empty", "array" or "heapsort"
  input,     \* the array the last call was given, as it was at the call
  last,      \* the operation that ran last
  ret,       \* what that operation returned or threw
  swaps,     \* the calls of _swap that operation made, in order
  stack,     \* the calls in progress when a method is followed step by step
  call       \* the call that is followed step by step: method, index, count

vars ==
  <<storage, size, count, origin, input, last, ret, swaps, stack, call>>

----------------------------------------------------------------------------
\* Slots of the storage array.

\* null: the sentinel, and a slot emptied by removeMax
Null == [kind |-> "null", priority |-> 0, element |-> 0]

\* { priority: undefined, element: undefined }
Blank == [kind |-> "blank", priority |-> 0, element |-> 0]

\* { priority, element }
Record(p, e) == [kind |-> "rec", priority |-> p, element |-> e]

Priorities == 1..MaxPri
Elements == 1..MaxElem
Records == {Record(p, e) : p \in Priorities, e \in Elements}

\* A caller's array: 1-indexed, index 0 a sentinel.
ArrayOf(n, pri, elt) ==
  [k \in 0..n |-> IF k = 0 THEN Null ELSE Record(pri[k], elt[k])]

\* The arrays of n records with every assignment of priorities; the elements
\* go round Elements, so that records of equal priority can differ.
ArraysOfLen(n) ==
  {ArrayOf(n, pri, [k \in 1..n |-> ((k - 1) % MaxElem) + 1]) :
     pri \in [1..n -> Priorities]}

Arrays == UNION {ArraysOfLen(n) : n \in 0..MaxLen}

\* The array of eight records with priorities 3,1,4,1,5,9,2,6, each record's
\* element its priority.
ScenarioPriorities == <<3, 1, 4, 1, 5, 9, 2, 6>>

Scenario == ArrayOf(8, ScenarioPriorities, ScenarioPriorities)

\* array.length
Length(a) == Cardinality(DOMAIN a)

----------------------------------------------------------------------------
\* Values an operation hands back.

Void == [kind |-> "void", val |-> 0]
Undefined == [kind |-> "undefined", val |-> 0]
Element(e) == [kind |-> "element", val |-> e]
Number(n) == [kind |-> "number", val |-> n]
StorageRef == [kind |-> "storage", val |-> 0]
HeapFull == [kind |-> "Error", val |-> 0]
TypeError == [kind |-> "TypeError", val |-> 0]

\* x.priority and x.element can be read unless x is null or missing
Readable(s, k) == k \in DOMAIN s /\ s[k].kind # "null"

\* a.priority < b.priority: false when either priority is undefined
Less(a, b) == a.kind = "rec" /\ b.kind = "rec" /\ a.priority < b.priority

\* x.element as a returned value
ElementOf(x) == IF x.kind = "rec" THEN Element(x.element) ELSE Undefined

----------------------------------------------------------------------------
\* The private methods act on m = [st, cnt, err, tr, rd, calls, picks]: the
\* storage array, this._count, whether an exception is propagating, the
\* swaps made so far, the slots whose priority was read (each with the count
\* at the time), the indices _buildheap has called _sink with, and what
\* _sink saw at each of its swaps.

Start(s) ==
  [st |-> s, cnt |-> 0, err |-> "none", tr |-> <<>>, rd |-> {},
   calls |-> <<>>, picks |-> <<>>]

\* this._count = c
Holding(m, c) == [m EXCEPT !.cnt = c]

Throw(m) == [m EXCEPT !.err = "TypeError"]

\* this._storage[a].priority < this._storage[b].priority is evaluated: the
\* left operand is read first, the right one if that did not throw.
Compared(m, a, b) ==
  [m EXCEPT !.rd = @ \cup {<<a, m.cnt>>} \cup
                   (IF Readable(m.st, a) THEN {<<b, m.cnt>>} ELSE {})]

_left(i) == 2 * i

_right(i) == 2 * i + 1

_parent(i) == i \div 2

\* _swap that does not write the record it took from slot i into slot j.
_swapOverwrite(m, i, j) ==
  [m EXCEPT !.st = [m.st EXCEPT ![i] = m.st[j]],
            !.tr = Append(@, <<i, j>>)]

_swap(m, i, j) ==
  [m EXCEPT !.st = [m.st EXCEPT ![i] = m.st[j], ![j] = m.st[i]],
            !.tr = Append(@, <<i, j>>)]

\* _sink at node i is about to swap it with child: the priorities it has in
\* front of it.
Picked(m, cnt, i, child) ==
  [m EXCEPT !.picks =
     Append(@, [node |-> i, child |-> child, cnt |-> cnt,
                both |-> _right(i) <= cnt,
                pnode |-> m.st[i].priority,
                pleft |-> m.st[_left(i)].priority,
                pright |-> IF _right(i) <= cnt
                             THEN m.st[_right(i)].priority ELSE 0])]

RECURSIVE _float(_, _)
\* _float without the recursive call: the record rises one level only.
_floatOnce(m, i) ==
  LET p == _parent(i)
      s == m.st
  IN  IF m.err # "none" THEN m
      ELSE IF p = 0 THEN m
      ELSE IF ~(Readable(s, i) /\ Readable(s, p)) THEN Throw(m)
      ELSE IF Less(s[p], s[i]) THEN _swap(m, i, p)
      ELSE m

\* _float that also goes past a parent of equal priority.
_floatPastEqual(m, i) ==
  LET p == _parent(i)
      s == m.st
  IN  IF m.err # "none" THEN m
      ELSE IF p = 0 THEN m
      ELSE IF ~(Readable(s, i) /\ Readable(s, p)) THEN Throw(m)
      ELSE IF ~Less(s[i], s[p]) THEN _float(_swap(m, i, p), p)
      ELSE m

_float(m, i) ==
  LET p == _parent(i)
      s == m.st
      m1 == Compared(m, i, p)
  IN  IF m.err # "none" THEN m
      ELSE IF p = 0 THEN m
      ELSE IF ~(Readable(s, i) /\ Readable(s, p)) THEN Throw(m1)
      ELSE IF Less(s[p], s[i]) THEN _float(_float(_swap(m1, i, p), p), i)
      ELSE m1

RECURSIVE _sink(_, _, _)
\* _sink without the test of the right child.
_sinkLeftOnly(m, cnt, i) ==
  LET left == _left(i)
      s == m.st
  IN  IF m.err # "none" THEN m
      ELSE IF left > cnt THEN m
      ELSE IF ~(Readable(s, i) /\ Readable(s, left)) THEN Throw(m)
      ELSE IF Less(s[i], s[left])
        THEN _sink(_sink(_swap(m, i, left), cnt, left), cnt, i)
      ELSE m

\* _sink that tests the right child without asking whether it is within
\* the count.
_sinkUnguarded(m, cnt, i) ==
  LET left == _left(i)
      right == _right(i)
      s == m.st
      leftLess ==
        left <= cnt /\ Readable(s, i) /\ Readable(s, left) /\ Less(s[i], s[left])
      m1 == IF left <= cnt THEN Compared(m, i, left) ELSE m
      m2 == IF leftLess THEN m1 ELSE Compared(m1, i, right)
  IN  IF m.err # "none" THEN m
      ELSE IF left <= cnt /\ ~(Readable(s, i) /\ Readable(s, left)) THEN Throw(m1)
      ELSE IF leftLess
        THEN _sink(_sink(_swap(m2, i, left), cnt, left), cnt, i)
      ELSE IF ~(Readable(s, i) /\ Readable(s, right)) THEN Throw(m2)
      ELSE IF Less(s[i], s[right])
        THEN _sink(_sink(_swap(m2, i, right), cnt, right), cnt, i)
      ELSE m2

_sink(m, cnt, i) ==
  LET left == _left(i)
      right == _right(i)
      s == m.st
      leftThrows == left <= cnt /\ ~(Readable(s, i) /\ Readable(s, left))
      leftLess == left <= cnt /\ ~leftThrows /\ Less(s[i], s[left])
      rightThrows ==
        ~leftLess /\ right <= cnt /\ ~(Readable(s, i) /\ Readable(s, right))
      rightLess ==
        ~leftLess /\ right <= cnt /\ ~rightThrows /\ Less(s[i], s[right])
      \* the loop's condition has been evaluated
      m1 == IF left <= cnt THEN Compared(m, i, left) ELSE m
      m2 == IF ~leftLess /\ ~leftThrows /\ right <= cnt
              THEN Compared(m1, i, right) ELSE m1
      \* the first and the second test of the loop's body
      m3 == Compared(m2, i, left)
      m4 == Compared(m3, i, right)
  IN  IF m.err # "none" THEN m
      ELSE IF leftThrows \/ rightThrows THEN Throw(m2)
      ELSE IF ~(leftLess \/ rightLess) THEN m2
      ELSE IF ~(Readable(s, i) /\ Readable(s, left)) THEN Throw(m3)
      ELSE IF Less(s[i], s[left])
        THEN _sink(_sink(_swap(Picked(m3, cnt, i, left), i, left), cnt, left),
                   cnt, i)
      ELSE IF ~Readable(s, right) THEN Throw(m4)
      ELSE IF Less(s[i], s[right])
        THEN _sink(_sink(_swap(Picked(m4, cnt, i, right), i, right), cnt,
                         right),
                   cnt, i)
      ELSE m4

RECURSIVE BuildLoop(_, _, _, _)
BuildLoop(m, sz, cnt, i) ==
  IF i <= sz /\ m.err = "none"
    THEN BuildLoop(_sink([m EXCEPT !.calls = Append(@, i)], cnt, i),
                   sz, cnt, i + 1)
    ELSE m

_buildheap(m, sz, cnt) == BuildLoop(m, sz, cnt, 1)

----------------------------------------------------------------------------
\* The public methods act on a heap h = [storage, size, count] and give
\* the heap afterwards with the value returned or thrown.

Outcome(m, sz, cnt, r) ==
  [storage |-> m.st, size |-> sz, count |-> cnt,
   ret |-> IF m.err = "none" THEN r ELSE TypeError, tr |-> m.tr,
   rd |-> m.rd, calls |-> m.calls, picks |-> m.picks]

constructorEmpty(sz) ==
  Outcome(Start([k \in 0..sz |-> IF k = 0 THEN Null ELSE Blank]), sz, 0, Void)

constructorFromArray(fromArray) ==
  LET sz == Length(fromArray) - 1
  IN  Outcome(_buildheap(Holding(Start(fromArray), sz), sz, sz), sz, sz, Void)

\* insert with <= for <: one record too many is let in.
insertOffByOne(h, priority, element) ==
  IF h.count <= h.size
    THEN LET c == h.count + 1
             s == [k \in DOMAIN h.storage \cup {c} |->
                     IF k = c THEN Record(priority, element) ELSE h.storage[k]]
         IN  Outcome(_float(Holding(Start(s), c), c), h.size, c, Void)
    ELSE Outcome(Start(h.storage), h.size, h.count, HeapFull)

\* insert that drops the record silently when the heap is full.
insertSilentDrop(h, priority, element) ==
  IF h.count < h.size
    THEN LET c == h.count + 1
             s == [h.storage EXCEPT ![c] = Record(priority, element)]
         IN  Outcome(_float(Holding(Start(s), c), c), h.size, c, Void)
    ELSE Outcome(Start(h.storage), h.size, h.count, Void)

insert(h, priority, element) ==
  IF h.count < h.size
    THEN LET c == h.count + 1
             s == [h.storage EXCEPT ![c] = Record(priority, element)]
         IN  Outcome(_float(Holding(Start(s), c), c), h.size, c, Void)
    ELSE Outcome(Start(h.storage), h.size, h.count, HeapFull)

\* removeMax that reads the element at the root after the swap: it returns
\* the last record's element and removes the root's.
removeMaxStale(h) ==
  IF h.count = 0
    THEN Outcome(Start(h.storage), h.size, h.count, Undefined)
  ELSE IF h.count = 1
    THEN Outcome(Start([h.storage EXCEPT ![1] = Null]), h.size, 0,
                 ElementOf(h.storage[1]))
  ELSE LET m == _swap(Start(h.storage), 1, h.count)
       IN  Outcome(_sink([m EXCEPT !.st = [@ EXCEPT ![h.count] = Null],
                                   !.cnt = h.count - 1],
                         h.count - 1, 1),
                   h.size, h.count - 1, ElementOf(m.st[1]))

\* removeMax that lowers the count before it looks at it.
removeMaxEarlyDecrement(h) ==
  IF h.count = 0
    THEN Outcome(Start(h.storage), h.size, h.count - 1, Undefined)
  ELSE IF h.count = 1
    THEN Outcome(Start([h.storage EXCEPT ![1] = Null]), h.size, 0,
                 ElementOf(h.storage[1]))
  ELSE LET m == _swap(Start(h.storage), 1, h.count)
       IN  Outcome(_sink([m EXCEPT !.st = [@ EXCEPT ![h.count] = Null],
                                   !.cnt = h.count - 1],
                         h.count - 1, 1),
                   h.size, h.count - 1, ElementOf(m.st[h.count]))

removeMax(h) ==
  IF h.count = 0
    THEN Outcome(Start(h.storage), h.size, h.count, Undefined)
  ELSE IF h.count = 1
    THEN IF ~Readable(h.storage, 1)
           THEN Outcome(Throw(Start(h.storage)), h.size, 0, Void)
           ELSE Outcome(Start([h.storage EXCEPT ![1] = Null]), h.size, 0,
                        ElementOf(h.storage[1]))
  ELSE LET m == _swap(Start(h.storage), 1, h.count)
       IN  IF ~Readable(m.st, h.count)
             THEN Outcome(Throw(m), h.size, h.count, Void)
             ELSE Outcome(
                    _sink([m EXCEPT !.st = [@ EXCEPT ![h.count] = Null],
                                    !.cnt = h.count - 1],
                          h.count - 1, 1),
                    h.size, h.count - 1, ElementOf(m.st[h.count]))

RECURSIVE SortLoop(_, _)
\* The loop of sort without the call of _sink.
SortLoopNoSink(m, cnt) ==
  IF cnt > 0 /\ m.err = "none"
    THEN SortLoop(_swap(m, 1, cnt), cnt - 1)
    ELSE [m |-> m, cnt |-> cnt]

SortLoop(m, cnt) ==
  IF cnt > 0 /\ m.err = "none"
    THEN SortLoop(_sink(Holding(_swap(m, 1, cnt), cnt - 1), cnt - 1, 1),
                  cnt - 1)
    ELSE [m |-> m, cnt |-> cnt]

sort(h) ==
  LET r == SortLoop(Start(h.storage), h.count)
  IN  Outcome(r.m, h.size, r.cnt, StorageRef)

heapsort(array) ==
  LET heap == constructorFromArray(array)
      sorted == sort(heap)
  IN  IF heap.ret = TypeError THEN heap
      ELSE [sorted EXCEPT !.ret = IF @ = TypeError THEN @ ELSE Void,
                          !.tr = heap.tr \o @,
                          !.rd = heap.rd \cup @,
                          !.calls = heap.calls,
                          !.picks = heap.picks \o @]

----------------------------------------------------------------------------
\* The program: a caller constructs one heap, or calls the static heapsort,
\* and then calls the public methods in any order.

Heap == [storage |-> storage, size |-> size, count |-> count]

\* No call is followed step by step.
NoCall == [fn |-> "none", i |-> 0, cnt |-> 0]

Becomes(r, op) ==
  /\ storage' = r.storage
  /\ size' = r.size
  /\ count' = r.count
  /\ ret' = r.ret
  /\ swaps' = r.tr
  /\ last' = op
  /\ UNCHANGED <<stack, call>>

Init ==
  /\ storage = <<>>
  /\ size = 0
  /\ count = 0
  /\ origin = "none"
  /\ input = <<>>
  /\ last = "none"
  /\ ret = Void
  /\ swaps = <<>>
  /\ stack = <<>>
  /\ call = NoCall

NewEmpty(sz) ==
  /\ origin = "none"
  /\ Becomes(constructorEmpty(sz), "constructor")
  /\ origin' = "empty"
  /\ input' = <<>>

NewFromArray(array) ==
  /\ origin = "none"
  /\ Becomes(constructorFromArray(array), "constructor")
  /\ origin' = "array"
  /\ input' = array

Heapsort(array) ==
  /\ origin = "none"
  /\ Becomes(heapsort(array), "heapsort")
  /\ origin' = "heapsort"
  /\ input' = array

Constructed == origin \in {"empty", "array"}

\* sort() destroys the heap: the documented use makes no call after it.
Intact == last # "sort"

Insert(priority, element) ==
  /\ Constructed
  /\ Becomes(insert(Heap, priority, element), "insert")
  /\ input' = <<>>
  /\ UNCHANGED origin

RemoveMax ==
  /\ Constructed
  /\ Becomes(removeMax(Heap), "removeMax")
  /\ input' = <<>>
  /\ UNCHANGED origin

Count ==
  /\ Constructed
  /\ ret' = Number(count)
  /\ swaps' = <<>>
  /\ last' = "count"
  /\ input' = <<>>
  /\ UNCHANGED <<storage, size, count, origin, stack, call>>

Sort ==
  /\ Constructed
  /\ Becomes(sort(Heap), "sort")
  /\ input' = <<>>
  /\ UNCHANGED origin

Next ==
  \/ origin = "none" /\ \E sz \in 1..MaxCap : NewEmpty(sz)
  \/ origin = "none" /\ \E array \in Arrays : NewFromArray(array)
  \/ origin = "none" /\ \E array \in Arrays \cup {Scenario} : Heapsort(array)
  \/ Intact /\ \E p \in Priorities, e \in Elements : Insert(p, e)
  \/ Intact /\ RemoveMax
  \/ Intact /\ Count
  \/ Intact /\ Sort

Spec == Init /\ [][Next]_vars

\* Any use of the heap, calls after sort() included.
NextAny ==
  \/ origin = "none" /\ \E sz \in 1..MaxCap : NewEmpty(sz)
  \/ origin = "none" /\ \E array \in Arrays : NewFromArray(array)
  \/ origin = "none" /\ \E array \in Arrays \cup {Scenario} : Heapsort(array)
  \/ \E p \in Priorities, e \in Elements : Insert(p, e)
  \/ RemoveMax
  \/ Count
  \/ Sort

SpecAny == Init /\ [][NextAny]_vars

----------------------------------------------------------------------------
\* The private methods followed one step at a time.  A call in progress is
\* a frame on the stack; a method that loops is at the head of its loop
\* whenever its frame is on top, the call it made having returned.  The
\* storage holds records in every slot of 1..size, so no read fails.

Frame(fn, i) == [fn |-> fn, i |-> i]

Top == stack[Len(stack)]

\* The stack after the call on top has returned.
Returning == SubSeq(stack, 1, Len(stack) - 1)

Running(fn) == origin = "call" /\ stack # <<>> /\ Top.fn = fn

\* The loop of _float that also goes on at a parent of equal priority.
floatLoopOrEqual(s, i) ==
  _parent(i) # 0 /\ s[_parent(i)].priority <= s[i].priority

\* The condition of the while loop of _float.
floatLoop(s, i) == _parent(i) # 0 /\ Less(s[_parent(i)], s[i])

\* The loop of _sink without its test of the right child.
sinkLoopLeftOnly(s, cnt, i) == _left(i) <= cnt /\ Less(s[i], s[_left(i)])

\* The condition of the while loop of _sink.
sinkLoop(s, cnt, i) ==
  \/ _left(i) <= cnt /\ Less(s[i], s[_left(i)])
  \/ _right(i) <= cnt /\ Less(s[i], s[_right(i)])

FloatSwap ==
  /\ Running("_float")
  /\ floatLoop(storage, Top.i)
  /\ storage' = _swap(Start(storage), Top.i, _parent(Top.i)).st
  /\ stack' = Append(stack, Frame("_float", _parent(Top.i)))
  /\ UNCHANGED <<size, count, origin, input, last, ret, swaps, call>>

FloatReturn ==
  /\ Running("_float")
  /\ ~floatLoop(storage, Top.i)
  /\ stack' = Returning
  /\ UNCHANGED <<storage, size, count, origin, input, last, ret, swaps, call>>

SinkLeft ==
  /\ Running("_sink")
  /\ sinkLoop(storage, count, Top.i)
  /\ Less(storage[Top.i], storage[_left(Top.i)])
  /\ storage' = _swap(Start(storage), Top.i, _left(Top.i)).st
  /\ stack' = Append(stack, Frame("_sink", _left(Top.i)))
  /\ UNCHANGED <<size, count, origin, input, last, ret, swaps, call>>

SinkRight ==
  /\ Running("_sink")
  /\ sinkLoop(storage, count, Top.i)
  /\ ~Less(storage[Top.i], storage[_left(Top.i)])
  /\ Less(storage[Top.i], storage[_right(Top.i)])
  /\ storage' = _swap(Start(storage), Top.i, _right(Top.i)).st
  /\ stack' = Append(stack, Frame("_sink", _right(Top.i)))
  /\ UNCHANGED <<size, count, origin, input, last, ret, swaps, call>>

\* The loop's condition is false, or the body's `else return` is taken.
SinkReturn ==
  /\ Running("_sink")
  /\ \/ ~sinkLoop(storage, count, Top.i)
     \/ /\ sinkLoop(storage, count, Top.i)
        /\ ~Less(storage[Top.i], storage[_left(Top.i)])
        /\ ~Less(storage[Top.i], storage[_right(Top.i)])
  /\ stack' = Returning
  /\ UNCHANGED <<storage, size, count, origin, input, last, ret, swaps, call>>

\* One round of the for loop of _buildheap; the frame left below the call
\* of _sink holds the next value of i.
BuildSink ==
  /\ Running("_buildheap")
  /\ Top.i <= size
  /\ stack' = Returning \o
                 <<Frame("_buildheap", Top.i + 1), Frame("_sink", Top.i)>>
  /\ UNCHANGED <<storage, size, count, origin, input, last, ret, swaps, call>>

BuildReturn ==
  /\ Running("_buildheap")
  /\ Top.i > size
  /\ stack' = Returning
  /\ UNCHANGED <<storage, size, count, origin, input, last, ret, swaps, call>>

\* One round of the while loop of sort.
SortSink ==
  /\ Running("sort")
  /\ count > 0
  /\ storage' = _swap(Start(storage), 1, count).st
  /\ count' = count - 1
  /\ stack' = Append(stack, Frame("_sink", 1))
  /\ UNCHANGED <<size, origin, input, last, ret, swaps, call>>

SortReturn ==
  /\ Running("sort")
  /\ count <= 0
  /\ stack' = Returning
  /\ ret' = StorageRef
  /\ UNCHANGED <<storage, size, count, origin, input, last, swaps, call>>

\* A call of _float or _sink at any index of 1..count, for any count, or a
\* call of _buildheap or sort, on any array of records.
InitSteps ==
  \E array \in Arrays, fn \in {"_float", "_sink", "_buildheap", "sort"},
     cnt \in 0..MaxLen, i \in 1..MaxLen :
    /\ cnt <= Length(array) - 1
    /\ fn \in {"_float", "_sink"} => i <= cnt
    /\ fn \in {"_buildheap", "sort"} => (i = 1 /\ cnt = Length(array) - 1)
    /\ storage = array
    /\ size = Length(array) - 1
    /\ count = cnt
    /\ origin = "call"
    /\ input = array
    /\ last = fn
    /\ ret = Void
    /\ swaps = <<>>
    /\ stack = <<Frame(fn, i)>>
    /\ call = [fn |-> fn, i |-> i, cnt |-> cnt]

NextSteps ==
  \/ FloatSwap
  \/ FloatReturn
  \/ SinkLeft
  \/ SinkRight
  \/ SinkReturn
  \/ BuildSink
  \/ BuildReturn
  \/ SortSink
  \/ SortReturn

\* A call that can take a step takes it: the methods run to completion on
\* one thread.
SpecSteps == InitSteps /\ [][NextSteps]_vars /\ WF_vars(NextSteps)

----------------------------------------------------------------------------
\* What the properties speak of.

\* storage[k] holds a record with a numeric priority
Live(s, k) == k \in DOMAIN s /\ s[k].kind = "rec"

\* The heap-order invariant over storage[1..cnt].
HeapOrdered(s, cnt) ==
  \A i \in 2..cnt :
    /\ Live(s, i)
    /\ Live(s, _parent(i))
    /\ s[_parent(i)].priority >= s[i].priority

\* storage[1..n] holds records in ascending order of priority.
Ascending(s, n) ==
  /\ \A i \in 1..n : Live(s, i)
  /\ \A i \in 1..(n - 1) : s[i].priority <= s[i + 1].priority

\* How many of the slots 1..n of s hold x.
Occurrences(s, n, x) == Cardinality({k \in 1..n : k \in DOMAIN s /\ s[k] = x})

\* storage t[1..n] holds the same records as s[1..n], each as many times.
SameRecords(s, t, n) ==
  \A k \in 1..n :
    /\ k \in DOMAIN s /\ k \in DOMAIN t
    /\ Occurrences(s, n, s[k]) = Occurrences(t, n, s[k])
    /\ Occurrences(s, n, t[k]) = Occurrences(t, n, t[k])

\* The priorities in slots 1..n, as a sequence.
PrioritiesOf(s, n) == [k \in 1..n |-> s[k].priority]

\* The priorities of the records that removeMax gives back, one call after
\* another until the heap is empty: each call returns the element of the
\* record at the root.
RECURSIVE Drain(_)
Drain(h) ==
  IF h.count <= 0 \/ ~Live(h.storage, 1) THEN <<>>
  ELSE <<h.storage[1].priority>> \o Drain(removeMax(h))

\* The records of array[1..n] inserted one by one, from index k on.
RECURSIVE InsertFrom(_, _, _)
InsertFrom(h, array, k) ==
  IF k >= Length(array) THEN h
  ELSE InsertFrom(insert(h, array[k].priority, array[k].element), array, k + 1)

NonIncreasing(q) == \A i \in 1..(Len(q) - 1) : q[i] >= q[i + 1]

----------------------------------------------------------------------------
\* C1: a heap constructed empty satisfies the heap-order invariant after
\* every insert (failed ones included) and every removeMax: each record in
\* 2..count has a parent of no smaller priority.
C1_HeapOrder == origin = "empty" => HeapOrdered(storage, count)

\* A removeMax on a full heap of four left three records, the two children
\* of the root of different priorities.
C1_Witness ==
  /\ origin = "empty"
  /\ last = "removeMax"
  /\ count = 3
  /\ storage[2].priority < storage[3].priority

\* C3: MaxHeap.heapsort(array) leaves array[1..n] in ascending order of
\* priority, holding the records it held before the call.
C3_HeapsortSorts ==
  origin = "heapsort" =>
    /\ Ascending(storage, Length(input) - 1)
    /\ SameRecords(input, storage, Length(input) - 1)

\* C4: construction from an array of n records sets size = count = n and
\* leaves storage[1..n] heap-ordered.
C4_BuildHeapOrdered ==
  (origin = "array" /\ last = "constructor") =>
    /\ size = Length(input) - 1
    /\ count = size
    /\ HeapOrdered(storage, count)

\* C7: draining a heap built from an array gives the same sequence of
\* priorities as draining a heap of the same capacity into which the
\* array's records were inserted one by one.
C7_BuildDrainsLikeInserts ==
  (origin = "array" /\ last = "constructor") =>
    Drain(Heap) = Drain(InsertFrom(constructorEmpty(size), input, 1))

\* C8: heapsort of the records with priorities 3,1,4,1,5,9,2,6 leaves the
\* priorities 1,1,2,3,4,5,6,9 at indices 1..8.
C8_ScenarioSorted ==
  (origin = "heapsort" /\ input = Scenario) =>
    PrioritiesOf(storage, 8) = <<1, 1, 2, 3, 4, 5, 6, 9>>

\* The scenario's array was sorted by heapsort.
C8_Witness ==
  /\ origin = "heapsort"
  /\ input = Scenario
  /\ last = "heapsort"
  /\ storage[8].priority = 9

\* The greatest priority among storage[1..cnt].
IsMax(s, cnt, k) == \A j \in 1..cnt : s[j].priority <= s[k].priority

\* storage t[1..n-1] holds the records of s[1..n] less one copy of x.
OneRemoved(s, t, n, x) ==
  \A k \in 1..n :
    Occurrences(t, n - 1, s[k]) =
      Occurrences(s, n, s[k]) - (IF s[k] = x THEN 1 ELSE 0)

\* The heap after removeMax has been called until it is empty.
RECURSIVE Drained(_)
Drained(h) == IF h.count <= 0 THEN h ELSE Drained(removeMax(h))

\* One removeMax on a heap constructed empty: undefined when there is no
\* record, else the element of a record of greatest priority, which leaves.
C2_RemoveMaxStep ==
  (origin = "empty" /\ last' = "removeMax") =>
    IF count = 0 THEN ret' = Undefined
    ELSE \E k \in 1..count :
           /\ IsMax(storage, count, k)
           /\ ret' = Element(storage[k].element)
           /\ count' = count - 1
           /\ OneRemoved(storage, storage', count, storage[k])

\* C2: every removeMax on a non-empty heap constructed empty returns the
\* element of a record of greatest priority among the records held and
\* removes it; so calling removeMax until the heap is empty gives priorities
\* in non-increasing order, one per record, and the next call returns
\* undefined.
C2_RemoveMaxGreatest ==
  /\ [][C2_RemoveMaxStep]_vars
  /\ [](origin = "empty" =>
         /\ NonIncreasing(Drain(Heap))
         /\ Len(Drain(Heap)) = count
         /\ removeMax(Drained(Heap)).ret = Undefined)

\* removeMax returned element 2 and left three records of element 1.
C2_Witness ==
  /\ origin = "empty"
  /\ last = "removeMax"
  /\ ret = Element(2)
  /\ count = 3
  /\ \A k \in 1..3 : storage[k].element = 1

\* C5: insert on a full heap throws the capacity error and changes neither
\* count nor storage; insert on a heap that is not full succeeds and raises
\* count by one. So a heap constructed empty takes size inserts and no more.
C5_InsertCapacity ==
  [][last' = "insert" =>
       IF count = size
         THEN ret' = HeapFull /\ count' = count /\ storage' = storage
         ELSE ret' = Void /\ count' = count + 1]_vars

\* A heap constructed empty was filled and the next insert failed.
C5_Witness ==
  /\ origin = "empty"
  /\ last = "insert"
  /\ ret = HeapFull
  /\ count = size
  /\ size >= 2
  /\ \A k \in 1..size : Live(storage, k)

\* C6: removeMax on a heap with count = 0 returns undefined without an
\* error and leaves count at 0 and the storage as it was.
C6_RemoveMaxEmpty ==
  [][(last' = "removeMax" /\ count = 0) =>
       ret' = Undefined /\ count' = 0 /\ storage' = storage]_vars

\* removeMax answered undefined on a heap that had been drained.
C6_Witness ==
  /\ origin = "empty"
  /\ last = "removeMax"
  /\ ret = Undefined
  /\ count = 0
  /\ storage[1] = Null

\* C9: sort() on a heap constructed empty and holding n records ends with
\* count = 0 and storage[1..n] in ascending order of priority, holding the
\* n records it held before.
C9_SortAscending ==
  [][(origin = "empty" /\ last' = "sort") =>
       /\ count' = 0
       /\ ret' = StorageRef
       /\ Ascending(storage', count)
       /\ SameRecords(storage, storage', count)]_vars

\* sort() left three records of increasing priority in a heap built by
\* inserts.
C9_Witness ==
  /\ origin = "empty"
  /\ last = "sort"
  /\ count = 0
  /\ Live(storage, 3)
  /\ storage[1].priority < storage[2].priority
  /\ storage[2].priority < storage[3].priority

\* C10: once a heap is constructed, 0 <= count <= size, and size stays
\* what construction made it; a successful insert raises count by one and
\* a removeMax on a non-empty heap lowers it by one.
C10_CountWithinCapacity ==
  /\ [](origin # "none" =>
         /\ 0 <= count /\ count <= size
         /\ Length(storage) = size + 1)
  /\ [][origin # "none" => size' = size]_vars
  /\ [][(last' = "insert" /\ ret' = Void) => count' = count + 1]_vars
  /\ [][(last' = "removeMax" /\ count > 0) => count' = count - 1]_vars

\* A heap built from an array was sorted and used again: removeMax left one
\* record, with a record that sort() left behind still in slot 3.
C10_Witness ==
  /\ origin = "array"
  /\ last = "removeMax"
  /\ ret.kind = "element"
  /\ count = 1
  /\ Live(storage, 3)

----------------------------------------------------------------------------
\* The reads of a priority at a slot outside 1..count.
OutOfRange(rd) == {x \in rd : x[1] < 1 \/ x[1] > x[2]}

\* The call ended without a TypeError and read no priority outside 1..count.
Sound(r) == r.ret # TypeError /\ OutOfRange(r.rd) = {}

\* C11: no operation throws anything but insert's capacity error, and none
\* reads the priority of a slot outside 1..count: not the constructor or
\* heapsort on any array, and not insert, removeMax or sort on any heap that
\* can be reached, calls after sort() included.
C11_OnlyCapacityError ==
  /\ ret # TypeError
  /\ origin = "none" =>
       \A array \in Arrays \cup {Scenario} :
         Sound(constructorFromArray(array)) /\ Sound(heapsort(array))
  /\ Constructed =>
       /\ Sound(removeMax(Heap))
       /\ Sound(sort(Heap))
       /\ \A p \in Priorities, e \in Elements :
            LET r == insert(Heap, p, e)
            IN  Sound(r) /\ (r.ret = HeapFull <=> count = size)

\* removeMax sank a record past a slot that an earlier removeMax had set to
\* null.
C11_Witness ==
  /\ Constructed
  /\ last = "removeMax"
  /\ count = 2
  /\ size >= 4
  /\ storage[3] = Null /\ storage[4] = Null
  /\ swaps # <<>>
  /\ swaps[Len(swaps)] = <<1, 2>>

----------------------------------------------------------------------------
\* The swaps of _sink recorded in picks, where the node had both children
\* within the count: the child taken is the one of larger priority, the
\* left one only when the right one is not greater.
LargerChildTaken(picks) ==
  \A k \in 1..Len(picks) :
    picks[k].both =>
      picks[k].child = IF picks[k].pright > picks[k].pleft
                         THEN _right(picks[k].node)
                         ELSE _left(picks[k].node)

\* C12: every swap of sink-down at a node with both children within the
\* count exchanges the node with its child of larger priority, in removeMax
\* and in sort on any heap-ordered heap that can be reached.
C12_SinkTakesLargerChild ==
  (Constructed /\ HeapOrdered(storage, count)) =>
    /\ LargerChildTaken(removeMax(Heap).picks)
    /\ LargerChildTaken(sort(Heap).picks)

\* The swaps of each call of _sink from outside (one per count in sort) go
\* down one path: each swap is at the child the swap before it went to.
SinglePath(picks) ==
  \A k \in 1..(Len(picks) - 1) :
    picks[k + 1].cnt = picks[k].cnt => picks[k + 1].node = picks[k].child

\* No call of _sink from outside swaps twice at one position.
NoSecondSwap(picks) ==
  \A j, k \in 1..Len(picks) :
    (j # k /\ picks[j].cnt = picks[k].cnt) => picks[j].node # picks[k].node

\* C13: the swaps of one sink-down, in removeMax and in each step of sort on
\* any heap-ordered heap that can be reached, form a single downward path
\* and never come back to a position.
C13_SinkSinglePath ==
  (Constructed /\ HeapOrdered(storage, count)) =>
    /\ SinglePath(removeMax(Heap).picks) /\ NoSecondSwap(removeMax(Heap).picks)
    /\ SinglePath(sort(Heap).picks) /\ NoSecondSwap(sort(Heap).picks)

----------------------------------------------------------------------------
\* The nodes of a heap of n records that have a child, from the last one
\* down to the root.
InternalNodesDown(n) == [k \in 1..(n \div 2) |-> (n \div 2) - k + 1]

HasChild(i, n) == _left(i) <= n

\* The calls among q that are at a node with a child, in the order made.
RECURSIVE AtInternalNodes(_, _)
AtInternalNodes(q, n) ==
  IF q = <<>> THEN <<>>
  ELSE (IF HasChild(Head(q), n) THEN <<Head(q)>> ELSE <<>>)
         \o AtInternalNodes(Tail(q), n)

\* C14: build-heap sinks the nodes that have children in the order from the
\* last of them, floor(n/2), down to the root: no node is sunk before a node
\* of larger index that has children.
C14_BuildHeapBottomUp ==
  (origin = "array" /\ last = "constructor") =>
    LET n == Length(input) - 1
        calls == constructorFromArray(input).calls
    IN  /\ AtInternalNodes(calls, n) = InternalNodesDown(n)
        /\ \A j, k \in 1..Len(calls) :
             (calls[j] < calls[k] /\ HasChild(calls[k], n)) => k < j

----------------------------------------------------------------------------
\* The position at which a record of priority p, put at j, stops on its way
\* up: the first whose parent has a priority of at least p, or the root.
RECURSIVE Landing(_, _, _)
Landing(s, j, p) ==
  IF j = 1 \/ s[_parent(j)].priority >= p THEN j
  ELSE Landing(s, _parent(j), p)

\* j is on the path from k up to the root.
RECURSIVE OnPath(_, _)
OnPath(j, k) == k >= 1 /\ (j = k \/ OnPath(j, _parent(k)))

\* The swaps from position j up to position at, one per level.
RECURSIVE SwapsUp(_, _)
SwapsUp(j, at) ==
  IF j <= at THEN <<>> ELSE <<<<j, _parent(j)>>>> \o SwapsUp(_parent(j), at)

\* C15: a successful insert(p, e) on a heap-ordered heap of k records
\* changes only the path from k+1 to the root: the new record ends at the
\* first position on the path whose parent has priority >= p, or at the
\* root; every ancestor it passed has a smaller priority and moves down one
\* level; every other slot is unchanged; a parent of equal priority is
\* never swapped.
C15_InsertFrame ==
  (Constructed /\ HeapOrdered(storage, count) /\ count < size) =>
    \A p \in Priorities, e \in Elements :
      LET r == insert(Heap, p, e)
          at == Landing(storage, count + 1, p)
      IN  /\ r.ret = Void
          /\ r.count = count + 1
          /\ DOMAIN r.storage = DOMAIN storage
          /\ \A x \in DOMAIN storage :
               r.storage[x] =
                 IF x = at THEN Record(p, e)
                 ELSE IF OnPath(x, count + 1) /\ x > at THEN storage[_parent(x)]
                 ELSE storage[x]
          /\ r.tr = SwapsUp(count + 1, at)
          /\ \A n \in 1..Len(r.tr) : storage[r.tr[n][2]].priority < p

\* The fourth record inserted went past its parent and stopped below a
\* root of its own priority.
C15_Witness ==
  /\ origin = "empty"
  /\ last = "insert"
  /\ ret = Void
  /\ count = 4
  /\ swaps = <<<<4, 2>>>>
  /\ storage[1].priority = storage[2].priority

----------------------------------------------------------------------------
\* The call followed step by step has returned.
Returned == origin = "call" /\ stack = <<>>

\* The machine on which the followed call started.
Started == Holding(Start(input), call.cnt)

\* What the claim says of the storage when the followed call returns, and
\* the storage the method's definition gives.
Ended ==
  LET i == call.i
  IN  /\ call.fn = "_float" =>
           /\ _parent(i) = 0 \/ storage[_parent(i)].priority >= storage[i].priority
           /\ storage = _float(Started, i).st
      /\ call.fn = "_sink" =>
           /\ \A c \in {_left(i), _right(i)} :
                c <= count => storage[i].priority >= storage[c].priority
           /\ storage = _sink(Started, call.cnt, i).st
      /\ call.fn = "_buildheap" =>
           storage = _buildheap(Started, size, call.cnt).st
      /\ call.fn = "sort" =>
           /\ count = 0
           /\ storage = sort([storage |-> input, size |-> size,
                              count |-> call.cnt]).storage

\* C16: every call of _float and of _sink, at any index of 1..count and on
\* any records, repeated priorities included, returns, _float at the root
\* or below a parent that is not smaller, _sink above children within the
\* count that are not greater; so do _buildheap and sort, which call them.
C16_Terminates == <>(Returned /\ Ended)

\* A _sink at the root of four records of which two have the same priority
\* has returned after moving records.
C16_Witness ==
  /\ Returned
  /\ call = [fn |-> "_sink", i |-> 1, cnt |-> 4]
  /\ storage # input
  /\ input[2].priority = input[3].priority

----------------------------------------------------------------------------
\* The indices within 1..cnt of the subtree rooted at i.
Subtree(i, cnt) == {j \in 1..cnt : OnPath(i, j)}

\* The subtree rooted at i, within 1..cnt, satisfies the heap order.
SubtreeOrdered(s, i, cnt) ==
  \A j \in Subtree(i, cnt) \ {i} : s[_parent(j)].priority >= s[j].priority

\* The slots in set hold the same records in s and in t, each as many times.
SameRecordsIn(s, t, set) ==
  \A k \in set :
    /\ Cardinality({j \in set : s[j] = s[k]}) = Cardinality({j \in set : t[j] = s[k]})
    /\ Cardinality({j \in set : s[j] = t[k]}) = Cardinality({j \in set : t[j] = t[k]})

\* C17: when the subtrees rooted at 2i and 2i+1, within 1..count, are heap
\* ordered, then after _sink(i) has returned the subtree rooted at i is heap
\* ordered, holds the records it held before, and no slot outside it has
\* changed.
C17_SinkRestoresSubtree ==
  (/\ Returned
   /\ call.fn = "_sink"
   /\ SubtreeOrdered(input, _left(call.i), call.cnt)
   /\ SubtreeOrdered(input, _right(call.i), call.cnt)) =>
    /\ SubtreeOrdered(storage, call.i, call.cnt)
    /\ SameRecordsIn(input, storage, Subtree(call.i, call.cnt))
    /\ \A k \in DOMAIN input \ Subtree(call.i, call.cnt) :
         storage[k] = input[k]

\* A _sink at the root above two heap-ordered subtrees has returned after
\* taking the root's record down two levels.
C17_Witness ==
  /\ Returned
  /\ call = [fn |-> "_sink", i |-> 1, cnt |-> 4]
  /\ SubtreeOrdered(input, 2, 4)
  /\ SubtreeOrdered(input, 3, 4)
  /\ storage[4] = input[1]
  /\ storage[4] # input[4]

----------------------------------------------------------------------------
\* C18: in a heap constructed empty and used through insert and removeMax,
\* the records in storage[1..count] are the records inserted less the
\* records removed: a successful insert adds its record once and changes no
\* other, a failed insert changes nothing, and removeMax takes out one
\* record, the one whose element it returns; every slot of 1..count holds a
\* record.
C18_RecordsPreserved ==
  (origin = "empty" /\ Intact) =>
    /\ \A k \in 1..count : Live(storage, k)
    /\ \A p \in Priorities, e \in Elements :
         LET r == insert(Heap, p, e)
             added == IF r.ret = Void THEN 1 ELSE 0
         IN  /\ r.count = count + added
             /\ \A x \in Records :
                  Occurrences(r.storage, r.count, x) =
                    Occurrences(storage, count, x) +
                      (IF x = Record(p, e) THEN added ELSE 0)
    /\ LET r == removeMax(Heap)
       IN  IF count = 0
             THEN r.count = 0 /\ r.ret = Undefined
             ELSE \E k \in 1..count :
                    /\ r.ret = Element(storage[k].element)
                    /\ r.count = count - 1
                    /\ \A x \in Records :
                         Occurrences(r.storage, r.count, x) =
                           Occurrences(storage, count, x) -
                             (IF x = storage[k] THEN 1 ELSE 0)

\* A removeMax on a full heap of four has sunk a record and left two copies
\* of one record among the three that remain.
C18_Witness ==
  /\ origin = "empty"
  /\ last = "removeMax"
  /\ count = 3
  /\ Len(swaps) >= 2
  /\ storage[1] = storage[3]
  /\ storage[2] # storage[1]

====
